---- MODULE Spec2Model ----
(***************************************************************************)
(* Chart geometry and annotation engine of chnn/weather.                   *)
(*                                                                         *)
(* Two layouts exist in the repository:                                    *)
(*   - components/Chart (src/unnamed/part_000): inflection policy for     *)
(*     extreme points, D = 10, PointLabel with edge suppression;           *)
(*   - pages/location/[coordinates].tsx: per-day-bucket policy, D = 6.     *)
(*                                                                         *)
(* Instants are epoch times counted in hours (the code counts them in      *)
(* milliseconds; every instant the zone arithmetic distinguishes is a      *)
(* whole hour).  The reference zone America/New_York is modelled by its    *)
(* rule: UTC-5 in standard time, UTC-4 in daylight-saving time, both       *)
(* transitions at 02:00 wall-clock time.                                   *)
(***************************************************************************)
EXTENDS Integers, Sequences, FiniteSets

VARIABLES
    pc,               \* position of the running function
    startTime,        \* getDayBoundaries: argument
    endTime,          \* getDayBoundaries: argument
    currentBoundary,  \* getDayBoundaries: local `currentBoundary` (as its instant)
    boundaries,       \* getDayBoundaries: local `boundaries`
    points,           \* getExtremePoints / getPointLabelPositioning: the series
    dayBoundaries,    \* getExtremePoints (bucket policy): argument
    extremePoints,    \* getExtremePoints: returned array
    point,            \* getPointLabelPositioning: first argument
    layout,           \* which layout's getPointLabelPositioning runs
    positioning,      \* getPointLabelPositioning: returned object
    tss,              \* Chart: prop
    width,            \* Chart: prop
    height,           \* Chart: prop
    scene             \* Chart: what the render produced

vars == <<pc, startTime, endTime, currentBoundary, boundaries, points,
          dayBoundaries, extremePoints, point, layout, positioning,
          tss, width, height, scene>>

daysVars == <<startTime, endTime, currentBoundary, boundaries>>
seriesVars == <<points, dayBoundaries, extremePoints>>
labelVars == <<point, layout, positioning>>
chartVars == <<tss, width, height, scene>>

\* The value of a variable the running function does not use.
Idle == <<>>

(***************************************************************************)
(* Bounds of the model.                                                    *)
(***************************************************************************)
\* Instants range over 0 .. MaxDay * HoursPerDay.
MaxDay == 5
\* Local date on which daylight-saving time starts (a 23-hour day).
DstStartDay == 1
\* Local date on which daylight-saving time ends (a 25-hour day).
DstEndDay == 3

(***************************************************************************)
(* The reference zone, "America/New_York".                                 *)
(***************************************************************************)
HoursPerDay == 24
StdOffset == -5
DstOffset == -4
TransitionHour == 2

\* First instant of daylight-saving time: 02:00 standard time on DstStartDay.
DstStart == DstStartDay * HoursPerDay + TransitionHour - StdOffset
\* First instant back in standard time: 02:00 daylight time on DstEndDay.
DstEnd == DstEndDay * HoursPerDay + TransitionHour - DstOffset

\* UTC offset in force at instant t.
Offset(t) == IF DstStart <= t /\ t < DstEnd THEN DstOffset ELSE StdOffset

\* Instant.toZonedDateTimeISO("America/New_York"): wall-clock hours of instant t.
LocalTime(t) == t + Offset(t)

\* Calendar date (day number) of instant t in the zone.
LocalDate(t) == LocalTime(t) \div HoursPerDay

MinOf(S) == CHOOSE m \in S : \A n \in S : m <= n

\* Wall-clock time to instant, Temporal's default "compatible" disambiguation:
\* the earlier instant when the wall-clock time occurs twice, and the
\* time shifted forward by the gap when it does not occur.
ToInstant(wall) ==
    LET cands == {m \in {wall - StdOffset, wall - DstOffset} : LocalTime(m) = wall}
    IN  IF cands # {} THEN MinOf(cands) ELSE wall - StdOffset

\* A mutant of StartOfDay: truncates the instant to a UTC day.
StartOfDayUtc(t) == (t \div HoursPerDay) * HoursPerDay

\* ZonedDateTime.startOfDay(), as the instant of the result.
StartOfDay(t) == ToInstant(LocalDate(t) * HoursPerDay)

\* A mutant of AddP1D: adds a fixed 24 hours.
AddFixed24h(t) == t + HoursPerDay

\* ZonedDateTime.add("P1D"), as the instant of the result: the same wall-clock
\* time on the next calendar date.
AddP1D(t) == ToInstant(LocalTime(t) + HoursPerDay)

(***************************************************************************)
(* getDayBoundaries                                                        *)
(***************************************************************************)
\* A mutant of LoopCond: the loop also runs when the boundary equals endTime.
LoopCondInclusive(endT, cur) == endT - cur >= 0

\* The while condition.
LoopCond(endT, cur) == endT - cur > 0

\* One run of the while body: the new currentBoundary and the pushed pair.
LoopBody(cur) ==
    LET boundaryStart == cur
        next == AddP1D(cur)
        boundaryEnd == next
    IN  [currentBoundary |-> next, pushed |-> <<boundaryStart, boundaryEnd>>]

RECURSIVE DayLoop(_, _, _)
DayLoop(endT, cur, acc) ==
    IF LoopCond(endT, cur)
    THEN DayLoop(endT, LoopBody(cur).currentBoundary, Append(acc, LoopBody(cur).pushed))
    ELSE acc

\* getDayBoundaries as a function of its arguments.
GetDayBoundaries(s, e) == DayLoop(e, StartOfDay(s), <<>>)

Instants == 0 .. MaxDay * HoursPerDay

\* State after lines 34-45: both arguments converted, currentBoundary set.
InitDays ==
    /\ startTime \in Instants
    /\ endTime \in Instants
    /\ currentBoundary = StartOfDay(startTime)
    /\ boundaries = <<>>
    /\ pc = "loop"
    /\ points = Idle /\ dayBoundaries = Idle /\ extremePoints = Idle
    /\ point = Idle /\ layout = Idle /\ positioning = Idle
    /\ tss = Idle /\ width = 0 /\ height = 0 /\ scene = Idle

\* The while condition holds: run the body once.
LoopStep ==
    /\ pc = "loop"
    /\ LoopCond(endTime, currentBoundary)
    /\ currentBoundary' = LoopBody(currentBoundary).currentBoundary
    /\ boundaries' = Append(boundaries, LoopBody(currentBoundary).pushed)
    /\ UNCHANGED <<pc, startTime, endTime, seriesVars, labelVars, chartVars>>

\* The while condition fails: return boundaries.
LoopExit ==
    /\ pc = "loop"
    /\ ~LoopCond(endTime, currentBoundary)
    /\ pc' = "done"
    /\ UNCHANGED <<daysVars, seriesVars, labelVars, chartVars>>

NextDays == LoopStep \/ LoopExit

SpecDays == InitDays /\ [][NextDays]_vars

\* The loop is a synchronous while loop: it keeps running while it can.
FairSpecDays == SpecDays /\ WF_vars(NextDays)

(***************************************************************************)
(* Samples and series.  A Point is { time, value, i }; toPoints numbers    *)
(* the samples of a series 0, 1, 2, ... in `i`.  JavaScript's `undefined`  *)
(* is modelled by the empty tuple and a defined number n by <<n>>.         *)
(***************************************************************************)
\* Longest series given to the inflection policy, and its largest value.
MaxLen == 5
MaxValue == 5
\* Longest series given to the label resolver, and its largest value.
MaxLabelLen == 4
MaxLabelValue == 3

Undefined == <<>>
Some(n) == <<n>>

\* All sequences over S of length at most n.
SeqsUpTo(S, n) == UNION {[1 .. k -> S] : k \in 0 .. n}

\* toPoints for hourly samples: the k-th sample has i = k - 1.
ToPoints(values) ==
    [k \in 1 .. Len(values) |-> [time |-> k - 1, value |-> values[k], i |-> k - 1]]

ValuesOf(ps) == [k \in 1 .. Len(ps) |-> ps[k].value]

\* Array.prototype.filter with the mask keep[k] of the callback's results.
RECURSIVE Pack(_, _, _)
Pack(ps, keep, k) ==
    IF k > Len(ps) THEN <<>>
    ELSE (IF keep[k] THEN <<ps[k]>> ELSE <<>>) \o Pack(ps, keep, k + 1)

Filter(ps, keep) == Pack(ps, keep, 1)

\* ps[k]?.value for a 1-based position k: undefined outside the array.
ValueAt(ps, k) == IF k \in 1 .. Len(ps) THEN Some(ps[k].value) ELSE Undefined

\* ps[k]?.i likewise.
IndexAt(ps, k) == IF k \in 1 .. Len(ps) THEN Some(ps[k].i) ELSE Undefined

\* A mutant of Lt: a missing neighbour counts as larger.
LtOrMissing(a, b) == b = Undefined \/ a < b[1]

\* a < b in JavaScript, b possibly undefined: false against undefined.
Lt(a, b) == b # Undefined /\ a < b[1]

\* A mutant of Gt: a missing neighbour counts as smaller.
GtOrMissing(a, b) == b = Undefined \/ a > b[1]

\* a > b likewise.
Gt(a, b) == b # Undefined /\ a > b[1]

(***************************************************************************)
(* getExtremePoints, inflection policy (components/Chart)                  *)
(***************************************************************************)
\* The first filter's callback at 1-based position k.
IsInflection(ps, k) ==
    LET p == ps[k].value
    IN  \/ Lt(p, ValueAt(ps, k - 1)) /\ Lt(p, ValueAt(ps, k + 1))
        \/ Gt(p, ValueAt(ps, k - 1)) /\ Gt(p, ValueAt(ps, k + 1))

\* The array after the first filter.
Flagged(ps) == Filter(ps, [k \in 1 .. Len(ps) |-> IsInflection(ps, k)])

\* A mutant of NotTooClose: a sample is dropped when the next flagged sample
\* is its neighbour, so the last sample of a run is kept.
NotTooCloseToNext(fs, k) == IndexAt(fs, k + 1) # Some(fs[k].i + 1)

\* A mutant of NotTooClose: nothing is filtered out.
KeepAll(fs, k) == TRUE

\* The second filter's callback at 1-based position k of the flagged array
\* fs: ps[i - 1]?.i !== p.i - 1, where ps is the array being filtered.
NotTooClose(fs, k) == IndexAt(fs, k - 1) # Some(fs[k].i - 1)

GetExtremePoints(ps) ==
    LET fs == Flagged(ps)
    IN  Filter(fs, [k \in 1 .. Len(fs) |-> NotTooClose(fs, k)])

InitInflection ==
    /\ pc = "call"
    /\ points \in {ToPoints(vs) : vs \in SeqsUpTo(1 .. MaxValue, MaxLen)}
    /\ extremePoints = Idle
    /\ dayBoundaries = Idle
    /\ startTime = 0 /\ endTime = 0 /\ currentBoundary = 0 /\ boundaries = Idle
    /\ point = Idle /\ layout = Idle /\ positioning = Idle
    /\ tss = Idle /\ width = 0 /\ height = 0 /\ scene = Idle

CallGetExtremePoints ==
    /\ pc = "call"
    /\ extremePoints' = GetExtremePoints(points)
    /\ pc' = "done"
    /\ UNCHANGED <<points, dayBoundaries, daysVars, labelVars, chartVars>>

NextInflection == CallGetExtremePoints

SpecInflection == InitInflection /\ [][NextInflection]_vars

(***************************************************************************)
(* getPointLabelPositioning                                                *)
(***************************************************************************)
\* A mutant of GetPointLabelPositioning: a tie counts as a lower neighbour.
GetPointLabelPositioningTies(pt, ps) ==
    LET D == 10
        i == pt.i
        p == pt.value
    IN  IF i = 0 \/ i = Len(ps) - 1 THEN [dx |-> 0, dy |-> 0]
        ELSE LET p0 == ps[i].value
                 p1 == ps[i + 2].value
             IN  IF p0 <= p /\ p1 <= p
                 THEN [textAnchor |-> "middle", dx |-> 0, dy |-> -D]
                 ELSE IF p0 > p /\ p1 > p
                 THEN [textAnchor |-> "middle", alignmentBaseline |-> "hanging",
                       dx |-> 0, dy |-> D]
                 ELSE IF p0 < p /\ p1 > p
                 THEN [textAnchor |-> "end", alignmentBaseline |-> "middle",
                       dx |-> -D, dy |-> -D]
                 ELSE IF p0 > p /\ p1 < p
                 THEN [textAnchor |-> "start", alignmentBaseline |-> "middle",
                       dx |-> D, dy |-> -D]
                 ELSE [dx |-> 0, dy |-> 0]

\* components/Chart.  ps[i - 1] and ps[i + 1] of the 0-based code are
\* ps[i] and ps[i + 2] here.
GetPointLabelPositioning(pt, ps) ==
    LET D == 10
        i == pt.i
        p == pt.value
    IN  IF i = 0 \/ i = Len(ps) - 1 THEN [dx |-> 0, dy |-> 0]
        ELSE LET p0 == ps[i].value
                 p1 == ps[i + 2].value
             IN  IF p0 < p /\ p1 < p
                 THEN [textAnchor |-> "middle", dx |-> 0, dy |-> -D]
                 ELSE IF p0 > p /\ p1 > p
                 THEN [textAnchor |-> "middle", alignmentBaseline |-> "hanging",
                       dx |-> 0, dy |-> D]
                 ELSE IF p0 < p /\ p1 > p
                 THEN [textAnchor |-> "end", alignmentBaseline |-> "middle",
                       dx |-> -D, dy |-> -D]
                 ELSE IF p0 > p /\ p1 < p
                 THEN [textAnchor |-> "start", alignmentBaseline |-> "middle",
                       dx |-> D, dy |-> -D]
                 ELSE [dx |-> 0, dy |-> 0]

\* pages/location/[coordinates].tsx: the same tests with the offsets written
\* out as 6.
GetPointLabelPositioningCoordinates(pt, ps) ==
    LET i == pt.i
        p == pt.value
    IN  IF i = 0 \/ i = Len(ps) - 1 THEN [dx |-> 0, dy |-> 0]
        ELSE LET p0 == ps[i].value
                 p1 == ps[i + 2].value
             IN  IF p0 < p /\ p1 < p
                 THEN [textAnchor |-> "middle", dx |-> 0, dy |-> -6]
                 ELSE IF p0 > p /\ p1 > p
                 THEN [textAnchor |-> "middle", alignmentBaseline |-> "hanging",
                       dx |-> 0, dy |-> 6]
                 ELSE IF p0 < p /\ p1 > p
                 THEN [textAnchor |-> "end", alignmentBaseline |-> "middle",
                       dx |-> -6, dy |-> -6]
                 ELSE IF p0 > p /\ p1 < p
                 THEN [textAnchor |-> "start", alignmentBaseline |-> "middle",
                       dx |-> 6, dy |-> -6]
                 ELSE [dx |-> 0, dy |-> 0]

Layouts == {"Chart", "coordinates"}

InitLabel ==
    /\ pc = "call"
    /\ points \in {ToPoints(vs) : vs \in SeqsUpTo(1 .. MaxLabelValue, MaxLabelLen)}
    /\ points # <<>>
    /\ point \in {points[k] : k \in 1 .. Len(points)}
    /\ layout \in Layouts
    /\ positioning = Idle
    /\ extremePoints = Idle /\ dayBoundaries = Idle
    /\ startTime = 0 /\ endTime = 0 /\ currentBoundary = 0 /\ boundaries = Idle
    /\ tss = Idle /\ width = 0 /\ height = 0 /\ scene = Idle

CallPositioningChart ==
    /\ pc = "call"
    /\ layout = "Chart"
    /\ positioning' = GetPointLabelPositioning(point, points)
    /\ pc' = "done"
    /\ UNCHANGED <<point, layout, seriesVars, daysVars, chartVars>>

CallPositioningCoordinates ==
    /\ pc = "call"
    /\ layout = "coordinates"
    /\ positioning' = GetPointLabelPositioningCoordinates(point, points)
    /\ pc' = "done"
    /\ UNCHANGED <<point, layout, seriesVars, daysVars, chartVars>>

NextLabel == CallPositioningChart \/ CallPositioningCoordinates

SpecLabel == InitLabel /\ [][NextLabel]_vars

(***************************************************************************)
(* getExtremePoints, per-day-bucket policy (pages/location/[coordinates])  *)
(***************************************************************************)
\* Longest series given to the bucket policy.
MaxBucketLen == 4
\* Sample times (hours) and values the bucket policy is run on: four
\* instants of local date 0, and one of local date 2.
BucketTimes == {6, 7, 8, 9, 60}
BucketValues == {1, 3, 5, 9}

\* toPoints for samples at the given times: time-ordered, numbered from 0.
ToPointsAt(times, values) ==
    [k \in 1 .. Len(values) |-> [time |-> times[k], value |-> values[k], i |-> k - 1]]

Ascending(ts) == \A k \in 1 .. Len(ts) - 1 : ts[k] < ts[k + 1]

\* The series over the times T and values V with at most n samples.
SeriesOver(T, V, n) ==
    {ToPointsAt(ts, vs) :
        <<ts, vs>> \in {tv \in SeqsUpTo(T, n) \X SeqsUpTo(V, n) :
                           Len(tv[1]) = Len(tv[2]) /\ Ascending(tv[1])}}

\* The filter callback: p.time >= boundaryStart && p.time < boundaryEnd.
InBoundary(p, b) == p.time >= b[1] /\ p.time < b[2]

PointsInBoundary(ps, b) == Filter(ps, [k \in 1 .. Len(ps) |-> InBoundary(ps[k], b)])

\* d3.maxIndex(ps, d => d.value): 0-based index of the first largest value,
\* -1 for an empty array.
MaxIndex(ps) ==
    IF ps = <<>> THEN -1
    ELSE (CHOOSE k \in 1 .. Len(ps) :
            /\ \A j \in 1 .. Len(ps) : ps[j].value <= ps[k].value
            /\ \A j \in 1 .. k - 1 : ps[j].value < ps[k].value) - 1

\* A mutant of MinIndex: the first sample of the bucket.
MinIndexFirst(ps) == IF ps = <<>> THEN -1 ELSE 0

\* d3.minIndex(ps, d => d.value): 0-based index of the first smallest value,
\* -1 for an empty array.
MinIndex(ps) ==
    IF ps = <<>> THEN -1
    ELSE (CHOOSE k \in 1 .. Len(ps) :
            /\ \A j \in 1 .. Len(ps) : ps[j].value >= ps[k].value
            /\ \A j \in 1 .. k - 1 : ps[j].value > ps[k].value) - 1

\* ps[n] for a 0-based n: undefined outside the array.
ArrayAt(ps, n) == IF n \in 0 .. Len(ps) - 1 THEN ps[n + 1] ELSE Undefined

\* The map callback: the pair returned for one day boundary.
BucketPair(ps, b) ==
    LET pointsInBoundary == PointsInBoundary(ps, b)
    IN  <<ArrayAt(pointsInBoundary, MinIndex(pointsInBoundary)),
          ArrayAt(pointsInBoundary, MaxIndex(pointsInBoundary))>>

\* Array.prototype.flat over the pairs.
RECURSIVE FlatPairs(_, _, _)
FlatPairs(bs, ps, k) ==
    IF k > Len(bs) THEN <<>> ELSE BucketPair(ps, bs[k]) \o FlatPairs(bs, ps, k + 1)

GetExtremePointsBucket(bs, ps) == FlatPairs(bs, ps, 1)

\* State of Chart after line 177: xDomain is the extent over every series of
\* the chart (it holds the extent of this series), dayBoundaries its days.
InitBucket ==
    /\ pc = "call"
    /\ points \in SeriesOver(BucketTimes, BucketValues, MaxBucketLen)
    /\ startTime \in BucketTimes
    /\ endTime \in BucketTimes
    /\ startTime <= endTime
    /\ \A k \in 1 .. Len(points) :
          startTime <= points[k].time /\ points[k].time <= endTime
    /\ dayBoundaries = GetDayBoundaries(startTime, endTime)
    /\ extremePoints = Idle
    /\ currentBoundary = 0 /\ boundaries = Idle
    /\ point = Idle /\ layout = "coordinates" /\ positioning = Idle
    /\ tss = Idle /\ width = 0 /\ height = 0 /\ scene = Idle

\* Chart, lines 178-184: extremePointsByTs[ts.label] for this series.
CallGetExtremePointsBucket ==
    /\ pc = "call"
    /\ extremePoints' = GetExtremePointsBucket(dayBoundaries, points)
    /\ pc' = "labels"
    /\ UNCHANGED <<points, dayBoundaries, daysVars, labelVars, chartVars>>

\* Chart, lines 275-291: every element is destructured by
\* getPointLabelPositioning and laid out.
RenderLabels ==
    /\ pc = "labels"
    /\ \A k \in 1 .. Len(extremePoints) : extremePoints[k] # Undefined
    /\ positioning' = [k \in 1 .. Len(extremePoints) |->
                          GetPointLabelPositioningCoordinates(extremePoints[k], points)]
    /\ pc' = "done"
    /\ UNCHANGED <<point, layout, seriesVars, daysVars, chartVars>>

\* Destructuring { i, value } of an undefined element throws a TypeError.
RenderLabelsThrows ==
    /\ pc = "labels"
    /\ \E k \in 1 .. Len(extremePoints) : extremePoints[k] = Undefined
    /\ pc' = "error"
    /\ UNCHANGED <<labelVars, seriesVars, daysVars, chartVars>>

NextBucket == CallGetExtremePointsBucket \/ RenderLabels \/ RenderLabelsThrows

SpecBucket == InitBucket /\ [][NextBucket]_vars

(***************************************************************************)
(* Chart (components/Chart), rendered by pages/location/[location].tsx     *)
(* with height 400 and the width the AutoSizer measured.                   *)
(*                                                                         *)
(* A pixel position is a rational <<num, den>> with den > 0.               *)
(***************************************************************************)
\* Longest series given to Chart, and its largest value.
MaxChartLen == 3
MaxChartValue == 2
\* Sample times (hours) of the series given to Chart.
ChartTimes == {0, 1, 39, 40}
\* Widths the AutoSizer reports.
ChartWidths == {900, 1000}

ChartHeight == 400
MinWidth == 1000
FallbackWidth == 1200
OuterBottom == 18
InnerTop == 30
InnerBottom == 30
MIN_SPACE_FOR_INNER_LABELS == 30

\* What a component returns to render nothing.
Null == [null |-> TRUE]

Abs(n) == IF n < 0 THEN -n ELSE n

\* q < n and |n - q| < m for a position q and integers n, m.
PosLess(q, n) == q[1] < n * q[2]
PosWithin(q, n, m) == Abs(n * q[2] - q[1]) < m * q[2]
PosPlus(q, n) == <<q[1] + n * q[2], q[2]>>

MaxOf(S) == CHOOSE m \in S : \A n \in S : m >= n

\* tss.map((ts) => ts.points).flat()
RECURSIVE AllPoints(_, _)
AllPoints(ts, k) ==
    IF k > Len(ts) THEN <<>> ELSE ts[k].points \o AllPoints(ts, k + 1)

\* d3.extent: [min, max], or [undefined, undefined] for no values.
Extent(ns) ==
    IF ns = {} THEN <<Undefined, Undefined>> ELSE <<Some(MinOf(ns)), Some(MaxOf(ns))>>

\* A continuous d3 scale with a defined domain: linear interpolation, and
\* the middle of the range when the domain is a single value.
Scale(domain, range, v) ==
    LET d0 == domain[1][1]
        d1 == domain[2][1]
    IN  IF d1 = d0 THEN <<range[1] + range[2], 2>>
        ELSE <<range[1] * (d1 - d0) + (v - d0) * (range[2] - range[1]), d1 - d0>>

\* A mutant of PointLabel: the right edge is not tested.
PointLabelNoRightEdge(pt, ps, x, y, w, h) ==
    LET pos == GetPointLabelPositioning(pt, ps)
    IN  IF \/ PosLess(x, MIN_SPACE_FOR_INNER_LABELS)
           \/ PosLess(y, MIN_SPACE_FOR_INNER_LABELS)
           \/ PosWithin(y, h, MIN_SPACE_FOR_INNER_LABELS)
        THEN Null
        ELSE [circle |-> [cx |-> x, cy |-> y],
              text |-> [x |-> PosPlus(x, pos.dx), y |-> PosPlus(y, pos.dy)]]

\* PointLabel: null when the point is too close to a border, else the marker
\* and the text.
PointLabel(pt, ps, x, y, w, h) ==
    LET pos == GetPointLabelPositioning(pt, ps)
    IN  IF \/ PosLess(x, MIN_SPACE_FOR_INNER_LABELS)
           \/ PosLess(y, MIN_SPACE_FOR_INNER_LABELS)
           \/ PosWithin(x, w, MIN_SPACE_FOR_INNER_LABELS)
           \/ PosWithin(y, h, MIN_SPACE_FOR_INNER_LABELS)
        THEN Null
        ELSE [circle |-> [cx |-> x, cy |-> y],
              text |-> [x |-> PosPlus(x, pos.dx), y |-> PosPlus(y, pos.dy)]]

\* width = width < 1000 ? 1200 : width
FloorWidth(w) == IF w < MinWidth THEN FallbackWidth ELSE w

\* COLOR_SCALE_BY_TS_LABEL[label]: the domain of the registered sequential
\* scale, or undefined for a label that is no key of the object.
COLOR_SCALE_BY_TS_LABEL(label) ==
    IF label = "Temperature" THEN Some(<<0, 35>>)
    ELSE IF label = "Dew Point" THEN Some(<<0, 21>>)
    ELSE Undefined

\* TsPath: the values range(d0, d1, (d1 - d0) / 10) of the gradient's stops,
\* as rationals; none for no points and for d0 = d1.  colorScale is called
\* once for each.
GradientStops(ps) ==
    LET vs == {ps[k].value : k \in 1 .. Len(ps)}
    IN  IF vs = {} \/ MinOf(vs) = MaxOf(vs) THEN <<>>
        ELSE [n \in 1 .. 10 |-> <<10 * MinOf(vs) + (n - 1) * (MaxOf(vs) - MinOf(vs)), 10>>]

\* Whether rendering the series calls its colour scale: for a gradient stop
\* in TsPath (line 238) or for the color prop of a PointLabel (line 382).
CallsColorScale(ps) == GradientStops(ps) # <<>> \/ GetExtremePoints(ps) # <<>>

\* The body of Chart.
Chart(ts, w0, h) ==
    LET w == FloorWidth(w0)
        innerWidth == w
        innerHeight == h - OuterBottom
        all == AllPoints(ts, 1)
        xDomain == Extent({all[k].time : k \in 1 .. Len(all)})
        yDomain == Extent({all[k].value : k \in 1 .. Len(all)})
        xScale(t) == Scale(xDomain, <<0, innerWidth>>, t)
        yScale(v) == Scale(yDomain, <<innerHeight - InnerBottom, InnerTop>>, v)
    IN  IF xDomain[1] = Undefined \/ xDomain[2] = Undefined
        THEN \* Temporal.Instant.fromEpochMilliseconds(undefined) throws
             [status |-> "error", error |-> "RangeError"]
        ELSE IF \E s \in 1 .. Len(ts) :
                   /\ COLOR_SCALE_BY_TS_LABEL(ts[s].label) = Undefined
                   /\ CallsColorScale(ts[s].points)
        THEN \* calling undefined throws
             [status |-> "error", error |-> "TypeError"]
        ELSE [status |-> "ok",
              width |-> w,
              dayBoundaries |-> GetDayBoundaries(xDomain[1][1], xDomain[2][1]),
              paths |-> [s \in 1 .. Len(ts) |->
                  [k \in 1 .. Len(ts[s].points) |->
                      <<xScale(ts[s].points[k].time), yScale(ts[s].points[k].value)>>]],
              gradients |-> [s \in 1 .. Len(ts) |->
                  [colorScale |-> COLOR_SCALE_BY_TS_LABEL(ts[s].label),
                   stops |-> GradientStops(ts[s].points)]],
              labels |-> [s \in 1 .. Len(ts) |->
                  LET eps == GetExtremePoints(ts[s].points)
                  IN  [k \in 1 .. Len(eps) |->
                          [point |-> eps[k],
                           x |-> xScale(eps[k].time),
                           y |-> yScale(eps[k].value),
                           color |-> <<COLOR_SCALE_BY_TS_LABEL(ts[s].label), eps[k].value>>,
                           element |-> PointLabel(eps[k], ts[s].points,
                                                  xScale(eps[k].time),
                                                  yScale(eps[k].value), w, h)]]]]

\* The labels getWeather gives the series, in order.
SeriesLabels == <<"Temperature", "Dew Point">>

ChartSeries == SeriesOver(ChartTimes, 1 .. MaxChartValue, MaxChartLen)

InitChart ==
    /\ pc = "render"
    /\ tss \in {[s \in 1 .. n |-> [label |-> SeriesLabels[s], points |-> ps[s]]] :
                   <<n, ps>> \in (0 .. Len(SeriesLabels)) \X (ChartSeries \X ChartSeries)}
    /\ width \in ChartWidths
    /\ height = ChartHeight
    /\ scene = Idle
    /\ points = Idle /\ dayBoundaries = Idle /\ extremePoints = Idle
    /\ startTime = 0 /\ endTime = 0 /\ currentBoundary = 0 /\ boundaries = Idle
    /\ point = Idle /\ layout = Idle /\ positioning = Idle

\* One render of Chart that returns its elements.
Render ==
    /\ pc = "render"
    /\ Chart(tss, width, height).status = "ok"
    /\ scene' = Chart(tss, width, height)
    /\ pc' = "done"
    /\ UNCHANGED <<tss, width, height, seriesVars, daysVars, labelVars>>

\* One render of Chart that throws.
RenderThrows ==
    /\ pc = "render"
    /\ Chart(tss, width, height).status = "error"
    /\ scene' = Chart(tss, width, height)
    /\ pc' = "error"
    /\ UNCHANGED <<tss, width, height, seriesVars, daysVars, labelVars>>

NextChart == Render \/ RenderThrows

SpecChart == InitChart /\ [][NextChart]_vars

\* Labels a caller of the exported Chart can give a series: the two
\* registered ones, and one of the series the page plans to add.
ChartLabels == {"Temperature", "Dew Point", "Wind"}

\* Chart given one or two series under any distinct labels.
InitChartAnyLabel ==
    /\ pc = "render"
    /\ tss \in {[s \in 1 .. n |-> [label |-> ls[s], points |-> ps[s]]] :
                   <<n, ls, ps>> \in (1 .. 2) \X {l \in ChartLabels \X ChartLabels : l[1] # l[2]}
                                     \X (ChartSeries \X ChartSeries)}
    /\ width \in ChartWidths
    /\ height = ChartHeight
    /\ scene = Idle
    /\ points = Idle /\ dayBoundaries = Idle /\ extremePoints = Idle
    /\ startTime = 0 /\ endTime = 0 /\ currentBoundary = 0 /\ boundaries = Idle
    /\ point = Idle /\ layout = Idle /\ positioning = Idle

SpecChartAnyLabel == InitChartAnyLabel /\ [][NextChart]_vars

(***************************************************************************)
(* Extreme-point detection under either policy: a series goes through the  *)
(* inflection policy of components/Chart or through the per-day-bucket     *)
(* policy of [coordinates].tsx.                                            *)
(***************************************************************************)
InitPolicies == InitInflection \/ InitBucket

DetectInflection == layout # "coordinates" /\ NextInflection

DetectBucket == layout = "coordinates" /\ NextBucket

NextPolicies == DetectInflection \/ DetectBucket

SpecPolicies == InitPolicies /\ [][NextPolicies]_vars

(***************************************************************************)
(* Properties of getDayBoundaries.  Calendar days are described here by    *)
(* the wall clock alone: an instant is a start of day when its wall-clock  *)
(* time is 00:00.                                                          *)
(***************************************************************************)
IsStartOfDay(t) == LocalTime(t) % HoursPerDay = 0

\* The start-of-day instant of the calendar date that holds t.
MidnightOf(t) ==
    CHOOSE m \in (t - HoursPerDay - 1) .. t :
        IsStartOfDay(m) /\ LocalDate(m) = LocalDate(t)

\* The start-of-day instant of the calendar date after the one that holds t.
NextMidnight(t) ==
    CHOOSE m \in t .. (t + HoursPerDay + 1) :
        IsStartOfDay(m) /\ LocalDate(m) = LocalDate(t) + 1

Returned == pc = "done"

FirstStart == boundaries[1][1]
LastEnd == boundaries[Len(boundaries)][2]

\* C1 (as claimed): for startTime < endTime the result runs from
\* start-of-day(startTime) to start-of-day(endTime) + 1 day, also when endTime
\* is itself a start-of-day instant.
C1_CoversThroughEndDay ==
    (Returned /\ startTime < endTime) =>
        /\ boundaries # <<>>
        /\ FirstStart = MidnightOf(startTime)
        /\ LastEnd = NextMidnight(MidnightOf(endTime))

\* C1 (amended): for startTime < endTime the result runs from
\* start-of-day(startTime) to the first start-of-day instant at or after
\* endTime: start-of-day(endTime) + 1 day when endTime is not a start-of-day
\* instant, and endTime itself when it is.
C1_CoversUpToEnd ==
    (Returned /\ startTime < endTime) =>
        /\ boundaries # <<>>
        /\ FirstStart = MidnightOf(startTime)
        /\ LastEnd = IF IsStartOfDay(endTime)
                     THEN endTime
                     ELSE NextMidnight(MidnightOf(endTime))

\* C1 witness: a call whose endTime is a start-of-day instant has returned
\* two or more days, the last of which ends at endTime.
C1_Witness ==
    /\ Returned /\ startTime < endTime
    /\ IsStartOfDay(endTime)
    /\ Len(boundaries) >= 2
    /\ LastEnd = endTime

\* C2: the intervals are ordered, contiguous and non-overlapping, and each
\* is exactly one calendar day: it starts at a start-of-day instant and
\* ends at the start-of-day instant of the next calendar date.
C2_ContiguousCalendarDays ==
    /\ \A k \in 1 .. Len(boundaries) :
          /\ boundaries[k][1] < boundaries[k][2]
          /\ IsStartOfDay(boundaries[k][1])
          /\ boundaries[k][2] = NextMidnight(boundaries[k][1])
    /\ \A k \in 1 .. Len(boundaries) - 1 :
          boundaries[k][2] = boundaries[k + 1][1]

\* C2 witness: a returned sequence that holds a 23-hour day and a 25-hour day.
C2_Witness ==
    /\ Returned
    /\ \E j, k \in 1 .. Len(boundaries) :
          /\ boundaries[j][2] - boundaries[j][1] = HoursPerDay - 1
          /\ boundaries[k][2] - boundaries[k][1] = HoursPerDay + 1

\* C3: when endTime <= start-of-day(startTime) the loop body is never
\* entered and the result is empty; and every call returns.
C3_EmptyOrTerminates ==
    /\ [](endTime <= MidnightOf(startTime) => boundaries = <<>>)
    /\ <>Returned

\* C3 witness: a call with endTime <= start-of-day(startTime) has returned
\* the empty sequence.
C3_Witness ==
    /\ Returned
    /\ endTime <= MidnightOf(startTime)
    /\ boundaries = <<>>

(***************************************************************************)
(* Properties of the inflection policy.                                    *)
(***************************************************************************)
ExampleSeries == ToPoints(<<1, 3, 2, 5, 1>>)

\* C4 (as claimed): for the values [1,3,2,5,1] the inflection policy returns
\* the samples at index 1 and index 3 and no other.
C4_ReturnsIndex1And3 ==
    (Returned /\ points = ExampleSeries) =>
        extremePoints = <<ExampleSeries[2], ExampleSeries[4]>>

\* C4 (amended): for the values [1,3,2,5,1] the inflection policy returns
\* the sample at index 1 (value 3) only: index 2 (value 2) is strictly below
\* both neighbours, so indices 1, 2 and 3 are flagged and form one run, of
\* which the first sample is kept; indices 0 and 4 are not returned.
C4_ReturnsIndex1Only ==
    (Returned /\ points = ExampleSeries) =>
        extremePoints = <<ExampleSeries[2]>>

\* C4 witness: the call on [1,3,2,5,1] has returned, with index 1 in the result.
C4_Witness ==
    /\ Returned
    /\ points = ExampleSeries
    /\ Len(extremePoints) = 1
    /\ extremePoints[1].i = 1 /\ extremePoints[1].value = 3

\* C5: every returned sample is an interior sample of the series whose value
\* is strictly below both neighbours or strictly above both; the first and
\* the last sample are never returned.
C5_OnlyInteriorStrictExtremes ==
    Returned =>
        \A k \in 1 .. Len(extremePoints) :
            LET p == extremePoints[k]
                n == Len(points)
            IN  /\ p.i > 0 /\ p.i < n - 1
                /\ points[p.i + 1] = p
                /\ \/ /\ p.value < points[p.i].value
                      /\ p.value < points[p.i + 2].value
                   \/ /\ p.value > points[p.i].value
                      /\ p.value > points[p.i + 2].value

\* C5 witness: a call on a series of three or more samples has returned a
\* local minimum.
C5_Witness ==
    /\ Returned
    /\ Len(points) >= 3
    /\ \E k \in 1 .. Len(extremePoints) :
          extremePoints[k].value < points[extremePoints[k].i].value

(***************************************************************************)
(* Properties of getPointLabelPositioning.                                 *)
(***************************************************************************)
\* The cases of the claim for the point at 0-based index i of ps, each with
\* the placement it prescribes for the offset d.
LabelCases(pt, ps, d) ==
    LET i == pt.i
        v == pt.value
        edge == i = 0 \/ i = Len(ps) - 1
        l == ps[i].value
        r == ps[i + 2].value
    IN  << <<edge, [dx |-> 0, dy |-> 0]>>,
           <<~edge /\ l < v /\ r < v,
             [textAnchor |-> "middle", dx |-> 0, dy |-> -d]>>,
           <<~edge /\ l > v /\ r > v,
             [textAnchor |-> "middle", alignmentBaseline |-> "hanging",
              dx |-> 0, dy |-> d]>>,
           <<~edge /\ l < v /\ r > v,
             [textAnchor |-> "end", alignmentBaseline |-> "middle",
              dx |-> -d, dy |-> -d]>>,
           <<~edge /\ l > v /\ r < v,
             [textAnchor |-> "start", alignmentBaseline |-> "middle",
              dx |-> d, dy |-> -d]>>,
           <<~edge /\ (l = v \/ r = v), [dx |-> 0, dy |-> 0]>> >>

\* C8: the placement is the one the claim's case table prescribes, with
\* D = 10 in components/Chart and D = 6 in [coordinates].tsx, and exactly one
\* case of the table applies.
C8_PlacementTable ==
    (Returned /\ layout \in Layouts) =>
        LET d == IF layout = "Chart" THEN 10 ELSE 6
            cases == LabelCases(point, points, d)
        IN  /\ Cardinality({c \in 1 .. Len(cases) : cases[c][1]}) = 1
            /\ \A c \in 1 .. Len(cases) :
                  cases[c][1] => positioning = cases[c][2]

\* C8 witness: the resolver has placed the label of an interior point that
\* ties with its left neighbour and lies above its right neighbour.
C8_Witness ==
    /\ Returned /\ layout = "Chart"
    /\ point.i > 0 /\ point.i < Len(points) - 1
    /\ points[point.i].value = point.value
    /\ points[point.i + 2].value < point.value
    /\ positioning = [dx |-> 0, dy |-> 0]

(***************************************************************************)
(* Properties of the per-day-bucket policy.                                *)
(***************************************************************************)
Called == pc \in {"labels", "done", "error"}

SamplesIn(b) == {points[k] : k \in {j \in 1 .. Len(points) :
                    b[1] <= points[j].time /\ points[j].time < b[2]}}

\* The day boundaries that hold a sample, in day-boundary order.
NonEmptyDays ==
    Filter(dayBoundaries,
           [k \in 1 .. Len(dayBoundaries) |-> SamplesIn(dayBoundaries[k]) # {}])

\* The entries of the result that are samples, in output order.
DefinedEntries ==
    Filter(extremePoints,
           [k \in 1 .. Len(extremePoints) |-> extremePoints[k] # Undefined])

\* C6: each day boundary that holds a sample contributes a sample of minimum
\* value followed by a sample of maximum value among its samples, and these
\* pairs appear in day-boundary order.
C6_MinThenMaxPerDay ==
    Called =>
        /\ Len(DefinedEntries) = 2 * Len(NonEmptyDays)
        /\ \A j \in 1 .. Len(NonEmptyDays) :
              LET S == SamplesIn(NonEmptyDays[j])
                  lo == DefinedEntries[2 * j - 1]
                  hi == DefinedEntries[2 * j]
              IN  /\ lo \in S /\ \A q \in S : lo.value <= q.value
                  /\ hi \in S /\ \A q \in S : hi.value >= q.value

\* C6 witness: one day holds the values [5,1,9,3] and a later day holds a
\* sample; the result starts with the value-1 sample, then the value-9 one.
C6_Witness ==
    /\ Called
    /\ Len(points) = 4
    /\ ValuesOf(points) = <<5, 1, 9, 3>>
    /\ Len(dayBoundaries) = 1
    /\ extremePoints = <<points[2], points[3]>>

\* C7 (as claimed): every element of the result is a sample of the series,
\* a day without samples adds nothing, and laying out the labels does not fail.
C7_EmptyDayAddsNothing ==
    Called =>
        /\ \A k \in 1 .. Len(extremePoints) :
              \E j \in 1 .. Len(points) : extremePoints[k] = points[j]
        /\ pc # "error"

(***************************************************************************)
(* Properties of Chart (components/Chart).                                 *)
(***************************************************************************)
Rendered == pc \in {"done", "error"}

NoSamples == \A s \in 1 .. Len(tss) : tss[s].points = <<>>

\* The outer width after the floor substitution.
OuterWidth == IF width < 1000 THEN 1200 ELSE width

\* The position q is less than 30px from an edge of the outer viewport.
NearEdge(x, y) ==
    \/ x[1] < 30 * x[2]
    \/ y[1] < 30 * y[2]
    \/ OuterWidth * x[2] - x[1] < 30 * x[2]
    \/ height * y[2] - y[1] < 30 * y[2]

\* C9: an extreme point less than 30px from an edge of the outer viewport
\* gets no label and no marker, and every sample of every series, the
\* suppressed ones included, is given to the path generator.
C9_EdgeLabelsSuppressed ==
    (Rendered /\ ~NoSamples) =>
        /\ scene.status = "ok"
        /\ \A s \in 1 .. Len(tss) :
              /\ Len(scene.paths[s]) = Len(tss[s].points)
              /\ \A k \in 1 .. Len(scene.labels[s]) :
                    LET l == scene.labels[s][k]
                    IN  /\ scene.paths[s][l.point.i + 1] = <<l.x, l.y>>
                        /\ NearEdge(l.x, l.y) => l.element = Null

\* C9 witness: a render of a 1000px wide chart in which an extreme point
\* 25px from the left edge got no label, while its sample is on the path.
C9_Witness ==
    /\ pc = "done"
    /\ \E s \in 1 .. Len(tss) : \E k \in 1 .. Len(scene.labels[s]) :
          LET l == scene.labels[s][k]
          IN  /\ l.x[1] = 25 * l.x[2]
              /\ l.element = Null
              /\ scene.paths[s][l.point.i + 1] = <<l.x, l.y>>

\* C10 (as claimed): a Chart given no samples at all renders without
\* raising an error.
C10_NoSamplesNoError ==
    (Rendered /\ NoSamples) => (pc = "done" /\ scene.status = "ok")

\* C11 (as claimed): whatever the labels of the series, the colour lookup
\* yields a usable scale and rendering the paths and point labels does not
\* fail.
C11_EveryLabelRenders ==
    (Rendered /\ ~NoSamples) => (pc = "done" /\ scene.status = "ok")

(***************************************************************************)
(* Properties of extreme-point detection under either policy.              *)
(***************************************************************************)
Detected == pc # "call"

FlaggedIndices ==
    {i \in 1 .. Len(points) - 2 :
        \/ /\ points[i + 1].value < points[i].value
           /\ points[i + 1].value < points[i + 2].value
        \/ /\ points[i + 1].value > points[i].value
           /\ points[i + 1].value > points[i + 2].value}

\* The first index of each maximal run of consecutive flagged indices.
RunStarts == {i \in FlaggedIndices : i - 1 \notin FlaggedIndices}

ReturnedIndices == {extremePoints[k].i : k \in 1 .. Len(extremePoints)}

\* C13: the result holds exactly the first sample of every maximal run of
\* flagged samples with consecutive indices, in series order, so no two
\* returned points have indices that differ by 1.
C13_RunsCollapseToFirst ==
    Returned =>
        /\ ReturnedIndices = RunStarts
        /\ \A k \in 1 .. Len(extremePoints) :
              extremePoints[k] = points[extremePoints[k].i + 1]
        /\ \A k \in 1 .. Len(extremePoints) - 1 :
              extremePoints[k].i < extremePoints[k + 1].i
        /\ \A j, k \in 1 .. Len(extremePoints) :
              extremePoints[j].i # extremePoints[k].i + 1

\* C13 witness: a zigzag series with a run of three flagged samples, of
\* which the call has returned the first only.
C13_Witness ==
    /\ Returned
    /\ \E i \in FlaggedIndices :
          /\ {i + 1, i + 2} \subseteq FlaggedIndices
          /\ i \in ReturnedIndices
          /\ i + 1 \notin ReturnedIndices
          /\ i + 2 \notin ReturnedIndices

====
